---------------------------- MODULE Spec2Model ----------------------------
(***************************************************************************)
(* A model of cleanSVG.py: the CleanSVG object (its element tree and its   *)
(* num_format) and the operations setDemicalPlaces, stripAttribute and     *)
(* findTransforms. cleanDecimals is setDemicalPlaces followed by one more  *)
(* walk of the same visitor with the same format.                          *)
(*                                                                         *)
(* Representation.                                                         *)
(*   - A Python string that the code inspects (an attribute value) is a    *)
(*     sequence of one-character strings: "2.5" is <<"2", ".", "5">>.      *)
(*     Attribute names are only compared, so they are TLA+ strings.        *)
(*   - A Python float is [neg, mag]: a sign and a magnitude counted in     *)
(*     units of 10^-Scale (the sign is kept apart because of -0.0).        *)
(*     The binary double nearest to a decimal midpoint lies on one side of *)
(*     it or the other; the formatter takes that side as its `up` input.   *)
(*   - An element tag is the sequence tag.split('}') yields, so            *)
(*     "{uri}rect" is <<"{uri", "rect">> and "rect" is <<"rect">>.         *)
(*   - element.attrib is a sequence of [name, value] records: the order    *)
(*     in which the dictionary iterates.                                   *)
(*   - A raised exception is its class name; "" is a normal return.        *)
(***************************************************************************)
EXTENDS Integers, Sequences, FiniteSets, TLC

\* ------------------------------------------------------------------ bounds

\* Fractional decimal digits a modelled float carries.
Scale == 3

\* setDemicalPlaces is called with 0 .. MaxPrecision.
MaxPrecision == 2

\* Coordinates stay within MaxCoord in magnitude (findTransforms can be
\* repeated on a node whose folding fails half-way, growing a coordinate).
MaxCoord == 20

\* ------------------------------------------------------------- characters

DigitChars == <<"0", "1", "2", "3", "4", "5", "6", "7", "8", "9">>

IsDigit(c) == \E i \in 1..Len(DigitChars) : DigitChars[i] = c

DigitVal(c) == (CHOOSE i \in 1..Len(DigitChars) : DigitChars[i] = c) - 1

\* \s of the regular expressions and the whitespace float() strips.
IsSpace(c) == c = " "

RECURSIVE Pow10(_)
Pow10(n) == IF n <= 0 THEN 1 ELSE 10 * Pow10(n - 1)

Drop(s, n) == SubSeq(s, n + 1, Len(s))

Take(s, n) == SubSeq(s, 1, n)

\* All characters of s satisfy IsDigit.
AllDigits(s) == \A i \in 1..Len(s) : IsDigit(s[i])

\* sub in s (Python's substring test).
Contains(s, sub) ==
    \E i \in 0..(Len(s) - Len(sub)) : SubSeq(s, i + 1, i + Len(sub)) = sub

\* ------------------------------------------------------------------ float

RECURSIVE DigitsVal(_)
DigitsVal(s) ==
    IF Len(s) = 0 THEN 0
    ELSE 10 * DigitsVal(Take(s, Len(s) - 1)) + DigitVal(s[Len(s)])

RECURSIVE LStrip(_)
LStrip(s) == IF Len(s) > 0 /\ IsSpace(s[1]) THEN LStrip(Drop(s, 1)) ELSE s

RECURSIVE RStrip(_)
RStrip(s) ==
    IF Len(s) > 0 /\ IsSpace(s[Len(s)]) THEN RStrip(Take(s, Len(s) - 1)) ELSE s

\* The unsigned decimal literals float() accepts: digits, at most one point,
\* at least one digit ("12", "12.", ".5", "1.20").
IsUnsigned(s) ==
    /\ Len(s) > 0
    /\ \A i \in 1..Len(s) : IsDigit(s[i]) \/ s[i] = "."
    /\ Cardinality({i \in 1..Len(s) : s[i] = "."}) <= 1
    /\ \E i \in 1..Len(s) : IsDigit(s[i])

Unsigned(s) == LET t == LStrip(RStrip(s))
               IN IF Len(t) > 0 /\ t[1] \in {"-", "+"} THEN Drop(t, 1) ELSE t

\* float(s) raises ValueError.
FloatFails(s) == ~IsUnsigned(Unsigned(s))

\* The position of the point in the unsigned literal u, Len(u) + 1 without one.
PointAt(u) ==
    CHOOSE i \in 1..(Len(u) + 1) :
        \/ i <= Len(u) /\ u[i] = "."
        \/ i = Len(u) + 1 /\ \A j \in 1..Len(u) : u[j] /= "."

\* The fractional digits frac in units of 10^-Scale (digits past Scale dropped).
FracVal(frac) ==
    IF Len(frac) > Scale THEN DigitsVal(Take(frac, Scale))
    ELSE DigitsVal(frac) * Pow10(Scale - Len(frac))

\* The magnitude of the unsigned literal u whose point is at position dot.
Magnitude(u, dot) ==
    DigitsVal(Take(u, dot - 1)) * Pow10(Scale) + FracVal(Drop(u, dot))

\* float(s) for a string s that float() accepts.
Float(s) ==
    [neg |-> Len(LStrip(s)) > 0 /\ LStrip(s)[1] = "-",
     mag |-> Magnitude(Unsigned(s), PointAt(Unsigned(s)))]

\* float(0), the default of element.get(coord_name, 0).
FloatZero == [neg |-> FALSE, mag |-> 0]

Signed(f) == IF f.neg THEN 0 - f.mag ELSE f.mag

Abs(n) == IF n < 0 THEN 0 - n ELSE n

\* a + b on floats: a zero sum is -0.0 only when both operands are negative.
FloatAdd(a, b) ==
    LET sum == Signed(a) + Signed(b)
    IN IF sum = 0 THEN [neg |-> a.neg /\ b.neg, mag |-> 0]
       ELSE [neg |-> sum < 0, mag |-> Abs(sum)]

\* ------------------------------------------------------ string conversion

RECURSIVE NatStr(_)
\* The decimal digits of a natural number ("%d" of it).
NatStr(n) ==
    IF n < 10 THEN <<DigitChars[n + 1]>>
    ELSE NatStr(n \div 10) \o <<DigitChars[(n % 10) + 1]>>

RECURSIVE Padded(_, _)
\* n written with exactly w digits (zero-padded on the left).
Padded(n, w) ==
    IF w <= 0 THEN <<>>
    ELSE Padded(n \div 10, w - 1) \o <<DigitChars[(n % 10) + 1]>>

SignStr(neg) == IF neg THEN <<"-">> ELSE <<>>

\* "%.<P>f" % f: f rounded to P decimal places; a double on a decimal midpoint
\* rounds by the side it lies on (up).
FixedStr(f, P, up) ==
    LET unit == Pow10(Scale - P)
        q0   == IF P >= Scale THEN f.mag * Pow10(P - Scale) ELSE f.mag \div unit
        r    == IF P >= Scale THEN 0 ELSE f.mag % unit
        q    == IF 2 * r > unit \/ (2 * r = unit /\ up) THEN q0 + 1 ELSE q0
    IN SignStr(f.neg) \o NatStr(q \div Pow10(P))
       \o (IF P > 0 THEN <<".">> \o Padded(q % Pow10(P), P) ELSE <<>>)

\* "%d" % f: int(f), which truncates toward zero.
IntStr(f) ==
    LET n == f.mag \div Pow10(Scale)
    IN SignStr(f.neg /\ n > 0) \o NatStr(n)

RECURSIVE StripZeros(_)
StripZeros(s) ==
    IF Len(s) > 1 /\ s[Len(s)] = "0" THEN StripZeros(Take(s, Len(s) - 1)) ELSE s

\* "%s" % f: str(f), the shortest decimal that has a fractional digit.
ReprStr(f) ==
    SignStr(f.neg) \o NatStr(f.mag \div Pow10(Scale)) \o <<".">>
    \o StripZeros(Padded(f.mag % Pow10(Scale), Scale))

\* self.num_format % f
PercentFormat(num_format, f, up) ==
    CASE num_format.conv = "s" -> ReprStr(f)
      [] num_format.conv = "d" -> IntStr(f)
      [] OTHER                -> FixedStr(f, num_format.prec, up)


\* ------------------------------------------------------ number formatting

RECURSIVE ZeroRun(_)
\* The number of "0" characters that end s.
ZeroRun(s) ==
    IF Len(s) > 0 /\ s[Len(s)] = "0" THEN 1 + ZeroRun(Take(s, Len(s) - 1)) ELSE 0

\* re_trailing_zeros.search(s): the point whose following characters are all
\* digits up to the end of s, the last of them a zero; group(2) is the run of
\* zeros that ends s and the lazy group(1) what stands between.
TrailingZeros(s) ==
    LET dots == {i \in 1..Len(s) :
                    /\ s[i] = "."
                    /\ i < Len(s)
                    /\ AllDigits(Drop(s, i))
                    /\ s[Len(s)] = "0"}
    IN IF dots = {} THEN [found |-> FALSE, group1 |-> <<>>, group2 |-> <<>>]
       ELSE LET i == CHOOSE d \in dots : \A e \in dots : d <= e
                z == ZeroRun(Drop(s, i))
            IN [found  |-> TRUE,
                group1 |-> SubSeq(s, i + 1, Len(s) - z),
                group2 |-> Drop(s, Len(s) - z)]

\* FormatFloat without the removal of trailing zeros.
FormatFloatUnstripped(num_format, f, up) == PercentFormat(num_format, f, up)

\* str_number without what the match trailing_zeros says to cut: the zeros
\* of group 2, and the point too when group 1 is empty.
CutTrailing(str_number, trailing_zeros) ==
    IF trailing_zeros.found
    THEN Take(str_number,
              Len(str_number) - (Len(trailing_zeros.group2)
                                 + (IF Len(trailing_zeros.group1) = 0 THEN 1 ELSE 0)))
    ELSE str_number

\* _formatNumber applied to a float.
FormatFloat(num_format, f, up) ==
    LET Cut(str_number) == CutTrailing(str_number, TrailingZeros(str_number))
    IN Cut(PercentFormat(num_format, f, up))

\* _formatNumber applied to a string float() accepts.
FormatNumber(num_format, number, up) == FormatFloat(num_format, Float(number), up)

\* ------------------------------------------------------ points attribute

RECURSIVE SplitFrom(_, _, _)
\* re_coord_split.split: s from character i on, cur being the field so far.
\* A run of whitespace is one separator and so is each comma.
SplitFrom(s, i, cur) ==
    IF i > Len(s) THEN <<cur>>
    ELSE IF s[i] = "," THEN <<cur>> \o SplitFrom(s, i + 1, <<>>)
    ELSE IF IsSpace(s[i])
         THEN IF i > 1 /\ IsSpace(s[i - 1])
              THEN SplitFrom(s, i + 1, cur)
              ELSE <<cur>> \o SplitFrom(s, i + 1, <<>>)
    ELSE SplitFrom(s, i + 1, Append(cur, s[i]))

CoordSplit(s) == SplitFrom(s, 1, <<>>)

RECURSIVE JoinPairs(_, _)
\* " ".join(values[i] + "," + values[i+1] for i in range(0, len(values), 2))
\* for a list of even length, from index i on.
JoinPairs(values, i) ==
    IF i > Len(values) THEN <<>>
    ELSE (IF i > 1 THEN <<" ">> ELSE <<>>)
         \o values[i] \o <<",">> \o values[i + 1]
         \o JoinPairs(values, i + 2)

\* CleanPoints with a list of odd length cut to its pairs instead of failing.
CleanPointsTruncating(num_format, points, up) ==
    LET tokens == CoordSplit(points)
        n      == Len(tokens) - (Len(tokens) % 2)
    IN IF \E i \in 1..Len(tokens) : FloatFails(tokens[i])
       THEN [raised |-> "ValueError", value |-> points]
       ELSE [raised |-> "",
             value  |-> JoinPairs([i \in 1..n |->
                                     FormatNumber(num_format, tokens[i], up)], 1)]

\* The points branch of _cleanDecimals on one value: what is raised ("" if
\* nothing) and the new value.
CleanPoints(num_format, points, up) ==
    LET tokens == CoordSplit(points)
    IN IF \E i \in 1..Len(tokens) : FloatFails(tokens[i])
       THEN [raised |-> "ValueError", value |-> points]
       ELSE IF Len(tokens) % 2 = 1
       THEN [raised |-> "IndexError", value |-> points]
       ELSE [raised |-> "",
             value  |-> JoinPairs([i \in 1..Len(tokens) |->
                                     FormatNumber(num_format, tokens[i], up)], 1)]


\* ----------------------------------------------------- translate pattern

\* A whole match of -?\d+\.?\d* (one group of re_translate).
IsNumberGroup(t) ==
    LET u == IF Len(t) > 0 /\ t[1] = "-" THEN Drop(t, 1) ELSE t
    IN /\ Len(u) > 0
       /\ IsDigit(u[1])
       /\ \A i \in 1..Len(u) : IsDigit(u[i]) \/ u[i] = "."
       /\ Cardinality({i \in 1..Len(u) : u[i] = "."}) <= 1

\* A whole match of \s*,?\s* (what stands between the groups).
IsSeparator(t) ==
    /\ \A i \in 1..Len(t) : IsSpace(t[i]) \/ t[i] = ","
    /\ Cardinality({i \in 1..Len(t) : t[i] = ","}) <= 1

RECURSIVE SeparatorRun(_)
\* The number of whitespace and comma characters that start t.
SeparatorRun(t) ==
    IF Len(t) > 0 /\ (IsSpace(t[1]) \/ t[1] = ",")
    THEN 1 + SeparatorRun(Drop(t, 1))
    ELSE 0

\* The ways text c (what stands between "(" and the next ")") splits into
\* group 1, separator and group 2: the lengths k of group 1 that match.
GroupSplits(c) ==
    {k \in 1..Len(c) :
        LET rest == Drop(c, k)
            sep  == SeparatorRun(rest)
        IN /\ IsNumberGroup(Take(c, k))
           /\ IsSeparator(Take(rest, sep))
           /\ IsNumberGroup(Drop(rest, sep))}

\* re_translate does not match.
NoMatch == [found |-> FALSE, group1 |-> <<>>, group2 |-> <<>>]

\* The groups of the match over text c whose group 1 has length k.
GroupsAt(c, k) ==
    [found  |-> TRUE,
     group1 |-> Take(c, k),
     group2 |-> Drop(Drop(c, k), SeparatorRun(Drop(c, k)))]

\* The match of re_translate that starts at the "(" at position i of s, if
\* any. No part of the pattern matches ")", so the match ends at the first
\* ")" after i; group 1 is greedy, so it is the longest that lets the rest
\* match (backtracking gives digits back to group 2).
MatchAt(s, i) ==
    LET closes == {j \in (i + 1)..Len(s) : s[j] = ")"}
        Longest(c, ks) ==
            IF ks = {} THEN NoMatch
            ELSE GroupsAt(c, CHOOSE x \in ks : \A y \in ks : y <= x)
        Inside(c) == Longest(c, GroupSplits(c))
    IN IF s[i] /= "(" \/ closes = {} THEN NoMatch
       ELSE Inside(SubSeq(s, i + 1,
                          (CHOOSE x \in closes : \A y \in closes : x <= y) - 1))

\* re_translate.search(s): the leftmost match anywhere in s.
TranslateSearch(s) ==
    LET Leftmost(starts) ==
            IF starts = {} THEN NoMatch
            ELSE MatchAt(s, CHOOSE x \in starts : \A y \in starts : x <= y)
    IN Leftmost({i \in 1..Len(s) : MatchAt(s, i).found})

\* ------------------------------------------------------------- attributes

\* attribute in element.keys()
Has(attrs, name) == \E i \in 1..Len(attrs) : attrs[i].name = name

\* element.get(name) for an attribute the element has.
Get(attrs, name) == attrs[CHOOSE i \in 1..Len(attrs) : attrs[i].name = name].value

\* element.set(name, value): an existing key keeps its place, a new key is
\* taken to come last in the dictionary's order.
Set(attrs, name, value) ==
    IF Has(attrs, name)
    THEN [i \in 1..Len(attrs) |->
            IF attrs[i].name = name THEN [name |-> name, value |-> value]
            ELSE attrs[i]]
    ELSE Append(attrs, [name |-> name, value |-> value])

\* del element.attrib[name]
Del(attrs, name) == SelectSeq(attrs, LAMBDA a : a.name /= name)

\* The dictionary itself: what two elements' attributes are compared by.
AttrMap(attrs) == {attrs[i] : i \in 1..Len(attrs)}

value_attributes ==
    {"x", "y", "x1", "y1", "x2", "y2", "cx", "cy", "r", "rx", "ry", "width", "height"}

position_attributes ==
    [rect    |-> <<"x", "y">>,
     circle  |-> <<"cx", "cy">>,
     ellipse |-> <<"cx", "cy">>,
     line    |-> <<"x1", "y1", "x2", "y2">>]

\* ---------------------------------------------------------------- visitors
\* A visitor takes an element (its tag and attributes) and returns what it
\* raised and the element's attributes as it left them.

\* _removeAttribute(element, (attribute,))
RemoveAttribute(attrs, attribute) ==
    [raised |-> "",
     attrs  |-> IF Has(attrs, attribute) THEN Del(attrs, attribute) ELSE attrs]

RECURSIVE CleanFrom(_, _, _, _, _)
\* The loop of _cleanDecimals from the i-th key of the snapshot keys on.
CleanFrom(attrs, keys, i, num_format, up) ==
    IF i > Len(keys) THEN [raised |-> "", attrs |-> attrs]
    ELSE LET attribute == keys[i]
         IN IF attribute = "points"
            THEN LET Store(r) ==
                         IF r.raised /= "" THEN [raised |-> r.raised, attrs |-> attrs]
                         ELSE CleanFrom(Set(attrs, "points", r.value),
                                        keys, i + 1, num_format, up)
                 IN Store(CleanPoints(num_format, Get(attrs, attribute), up))
            ELSE IF attribute \in value_attributes
            THEN IF FloatFails(Get(attrs, attribute))
                 THEN [raised |-> "ValueError", attrs |-> attrs]
                 ELSE CleanFrom(Set(attrs, attribute,
                                    FormatNumber(num_format, Get(attrs, attribute), up)),
                                keys, i + 1, num_format, up)
            ELSE CleanFrom(attrs, keys, i + 1, num_format, up)

\* _cleanDecimals(element)
CleanElement(attrs, num_format, up) ==
    CleanFrom(attrs, [i \in 1..Len(attrs) |-> attrs[i].name], 1, num_format, up)

RECURSIVE TranslateFrom(_, _, _, _, _, _)
\* The loop of _translateElement from the i-th coordinate name on (i counts
\* from 1, enumerate from 0: delta[i % 2] is group 1 for odd i here).
TranslateFrom(attrs, coords, i, delta, num_format, up) ==
    IF i > Len(coords) THEN [raised |-> "", attrs |-> Del(attrs, "transform")]
    ELSE LET coord_name == coords[i]
             d          == IF i % 2 = 1 THEN delta[1] ELSE delta[2]
         IN IF Has(attrs, coord_name) /\ FloatFails(Get(attrs, coord_name))
            THEN [raised |-> "ValueError", attrs |-> attrs]
            ELSE LET old       == IF Has(attrs, coord_name)
                                  THEN Float(Get(attrs, coord_name))
                                  ELSE FloatZero
                     new_coord == FloatAdd(old, Float(d))
                 IN TranslateFrom(Set(attrs, coord_name,
                                      FormatFloat(num_format, new_coord, up)),
                                  coords, i + 1, delta, num_format, up)

\* TranslateElement without the final del element.attrib['transform'].
TranslateElementKeeping(tag, attrs, delta, num_format, up) ==
    IF Len(tag) < 2 THEN [raised |-> "IndexError", attrs |-> attrs]
    ELSE LET element_type == tag[2]
         IN IF element_type \in DOMAIN position_attributes
            THEN LET r == TranslateFrom(attrs, position_attributes[element_type], 1,
                                        delta, num_format, up)
                 IN IF r.raised /= "" THEN r
                    ELSE [r EXCEPT !.attrs = Append(@, [name  |-> "transform",
                                                        value |-> Get(attrs, "transform")])]
            ELSE [raised |-> "", attrs |-> attrs]

\* _translateElement(element, delta)
TranslateElement(tag, attrs, delta, num_format, up) ==
    IF Len(tag) < 2 THEN [raised |-> "IndexError", attrs |-> attrs]
    ELSE LET element_type == tag[2]
         IN IF element_type \in DOMAIN position_attributes
            THEN TranslateFrom(attrs, position_attributes[element_type], 1,
                               delta, num_format, up)
            ELSE [raised |-> "", attrs |-> attrs]

TranslateWord == <<"t", "r", "a", "n", "s", "l", "a", "t", "e">>

\* _handleTransforms(node)
HandleTransforms(tag, attrs, num_format, up) ==
    LET Fold(translation) ==
            IF translation.found
            THEN TranslateElement(tag, attrs,
                                  <<translation.group1, translation.group2>>,
                                  num_format, up)
            ELSE [raised |-> "", attrs |-> attrs]
    IN IF Has(attrs, "transform") /\ Contains(Get(attrs, "transform"), TranslateWord)
       THEN Fold(TranslateSearch(Get(attrs, "transform")))
       ELSE [raised |-> "", attrs |-> attrs]


\* --------------------------------------------------------------- documents
\* The documents parseFile can load here: a root <svg> element and two more
\* elements, each taken from a palette, with or without the SVG namespace.

\* <rect id="r" x="1" y="2" transform="translate(5,3)"/>
RectTranslate ==
    [local |-> "rect",
     attrs |-> <<[name |-> "id", value |-> <<"r">>],
                  [name |-> "x", value |-> <<"1">>],
                  [name |-> "y", value |-> <<"2">>],
                  [name |-> "transform", value |-> <<"t", "r", "a", "n", "s", "l", "a", "t", "e", "(", "5", ",", "3", ")">>]>>]

\* <line id="b" x1="1.20" y1="2.46" transform="translate(2.5 -3)"/>
LineTranslate ==
    [local |-> "line",
     attrs |-> <<[name |-> "id", value |-> <<"b">>],
                  [name |-> "x1", value |-> <<"1", ".", "2", "0">>],
                  [name |-> "y1", value |-> <<"2", ".", "4", "6">>],
                  [name |-> "transform", value |-> <<"t", "r", "a", "n", "s", "l", "a", "t", "e", "(", "2", ".", "5", " ", "-", "3", ")">>]>>]

\* <g transform="translate(2,2)" id="g1" x="3.10"/>
GroupTranslate ==
    [local |-> "g",
     attrs |-> <<[name |-> "transform", value |-> <<"t", "r", "a", "n", "s", "l", "a", "t", "e", "(", "2", ",", "2", ")">>],
                  [name |-> "id", value |-> <<"g", "1">>],
                  [name |-> "x", value |-> <<"3", ".", "1", "0">>]>>]

\* <polyline points="1.20,2.00 3.456,4.0"/>
Polyline ==
    [local |-> "polyline",
     attrs |-> <<[name |-> "points", value |-> <<"1", ".", "2", "0", ",", "2", ".", "0", "0", " ", "3", ".", "4", "5", "6", ",", "4", ".", "0">>]>>]

\* <polyline width="3.00" points="1,2,3" height="2.50"/>
PolylineOdd ==
    [local |-> "polyline",
     attrs |-> <<[name |-> "width", value |-> <<"3", ".", "0", "0">>],
                  [name |-> "points", value |-> <<"1", ",", "2", ",", "3">>],
                  [name |-> "height", value |-> <<"2", ".", "5", "0">>]>>]

\* <polygon points="1, 2 3, 4"/>
PolygonCommaSpace ==
    [local |-> "polygon",
     attrs |-> <<[name |-> "points", value |-> <<"1", ",", " ", "2", " ", "3", ",", " ", "4">>]>>]

\* <rect x="1" y="2" transform="scale(2,3) translate(5,3)"/>
RectScaleTranslate ==
    [local |-> "rect",
     attrs |-> <<[name |-> "x", value |-> <<"1">>],
                  [name |-> "y", value |-> <<"2">>],
                  [name |-> "transform", value |-> <<"s", "c", "a", "l", "e", "(", "2", ",", "3", ")", " ", "t", "r", "a", "n", "s", "l", "a", "t", "e", "(", "5", ",", "3", ")">>]>>]

\* <circle cx="3.10" cy="0.25" r="7.8" transform="translate(55)"/>
CircleTranslate55 ==
    [local |-> "circle",
     attrs |-> <<[name |-> "cx", value |-> <<"3", ".", "1", "0">>],
                  [name |-> "cy", value |-> <<"0", ".", "2", "5">>],
                  [name |-> "r", value |-> <<"7", ".", "8">>],
                  [name |-> "transform", value |-> <<"t", "r", "a", "n", "s", "l", "a", "t", "e", "(", "5", "5", ")">>]>>]

\* <ellipse cx="3.456" transform="translate(12.5)"/>
EllipseTranslate12p5 ==
    [local |-> "ellipse",
     attrs |-> <<[name |-> "cx", value |-> <<"3", ".", "4", "5", "6">>],
                  [name |-> "transform", value |-> <<"t", "r", "a", "n", "s", "l", "a", "t", "e", "(", "1", "2", ".", "5", ")">>]>>]

\* <rect x="1" y="10%" transform="translate(5,3)"/>
RectPercent ==
    [local |-> "rect",
     attrs |-> <<[name |-> "x", value |-> <<"1">>],
                  [name |-> "y", value |-> <<"1", "0", "%">>],
                  [name |-> "transform", value |-> <<"t", "r", "a", "n", "s", "l", "a", "t", "e", "(", "5", ",", "3", ")">>]>>]

\* <circle cx="-0.04" id="c" transform="translate(5)"/>
CircleTranslate5 ==
    [local |-> "circle",
     attrs |-> <<[name |-> "cx", value |-> <<"-", "0", ".", "0", "4">>],
                  [name |-> "id", value |-> <<"c">>],
                  [name |-> "transform", value |-> <<"t", "r", "a", "n", "s", "l", "a", "t", "e", "(", "5", ")">>]>>]

\* <rect x="7.8" transform="rotate(45)"/>
RectRotate ==
    [local |-> "rect",
     attrs |-> <<[name |-> "x", value |-> <<"7", ".", "8">>],
                  [name |-> "transform", value |-> <<"r", "o", "t", "a", "t", "e", "(", "4", "5", ")">>]>>]

\* <svg width="10.50" height="7.8" id="a">
SvgRoot ==
    [local |-> "svg",
     attrs |-> <<[name |-> "width", value |-> <<"1", "0", ".", "5", "0">>],
                  [name |-> "height", value |-> <<"7", ".", "8">>],
                  [name |-> "id", value |-> <<"a">>]>>]

Elements ==
    {RectTranslate,
     LineTranslate,
     GroupTranslate,
     Polyline,
     PolylineOdd,
     PolygonCommaSpace,
     RectScaleTranslate,
     CircleTranslate55,
     EllipseTranslate12p5,
     RectPercent,
     CircleTranslate5,
     RectRotate}

\* The last element of every document.
LastElement == RectTranslate


\* ------------------------------------------------------------------ state

VARIABLES
    tag,         \* tag[n]: element n's tag, split at "}"
    children,    \* children[n]: element n's children, in document order
    attrib,      \* attrib[n]: element n's attributes
    num_format,  \* self.num_format
    call,        \* the most recent call on the object and its arguments
    raised,      \* what that call raised ("" when it returned)
    cleaned,     \* P when the last setDemicalPlaces call was for P and
                 \* returned, otherwise -1
    repeated,    \* the most recent call repeats the call before it
    visited      \* the nodes that call's walk reached, in order

vars ==
    <<tag, children, attrib, num_format, call, raised, cleaned, repeated, visited>>

\* self.root
Root == 1

Nodes == {1, 2, 3}

Namespace == "{http://www.w3.org/2000/svg"

\* The tree shapes: a chain root - 2 - 3, and a root with the children 2, 3.
Shapes ==
    {[n \in Nodes |-> IF n = 1 THEN <<2>> ELSE IF n = 2 THEN <<3>> ELSE <<>>],
     [n \in Nodes |-> IF n = 1 THEN <<2, 3>> ELSE <<>>]}

Precisions == 0..MaxPrecision

\* The attribute names stripAttribute is called with ("fill" is on no element).
StripNames == {"id", "fill"}

\* "%s", "%d" and "%.<P>f"
FormatS == [conv |-> "s", prec |-> 0]

FormatD == [conv |-> "d", prec |-> 0]

FormatF(P) == [conv |-> "f", prec |-> P]

NoCall == [op |-> "parseFile", places |-> 0, attribute |-> ""]

\* __init__ and parseFile
Init ==
    /\ \E namespaced \in BOOLEAN, e2 \in Elements :
         LET doc == [n \in Nodes |->
                       IF n = 1 THEN SvgRoot ELSE IF n = 2 THEN e2 ELSE LastElement]
         IN /\ tag = [n \in Nodes |->
                        IF namespaced THEN <<Namespace, doc[n].local>>
                        ELSE <<doc[n].local>>]
            /\ attrib = [n \in Nodes |-> doc[n].attrs]
    /\ children \in Shapes
    /\ num_format = FormatS
    /\ call = NoCall
    /\ raised = ""
    /\ cleaned = -1
    /\ repeated = FALSE
    /\ visited = <<>>

\* -------------------------------------------------------------- traversal

\* func(node, args): func names the visitor and carries its argument.
Visit(func, node, at, nf, up) ==
    CASE func.name = "_removeAttribute"  -> RemoveAttribute(at[node], func.attribute)
      [] func.name = "_cleanDecimals"    -> CleanElement(at[node], nf, up)
      [] func.name = "_handleTransforms" -> HandleTransforms(tag[node], at[node], nf, up)

\* The walk's account of func(node) having returned r on the attributes at.
Called(r, at, node) ==
    [raised  |-> r.raised,
     attrib  |-> [at EXCEPT ![node] = r.attrs],
     visited |-> <<node>>]

RECURSIVE ShallowChildren(_, _, _, _, _, _)
\* The children kids[i..] visited without their own children.
ShallowChildren(at, kids, i, func, nf, up) ==
    LET Then(r) ==
            IF r.raised /= "" THEN r
            ELSE [ShallowChildren(r.attrib, kids, i + 1, func, nf, up)
                    EXCEPT !.visited = r.visited \o @]
    IN IF i > Len(kids) THEN [raised |-> "", attrib |-> at, visited |-> <<>>]
       ELSE Then(Called(Visit(func, kids[i], at, nf, up), at, kids[i]))

\* Traverse that visits a node and its children but no deeper descendant.
TraverseShallow(at, node, func, nf, up) ==
    LET Then(r) ==
            IF r.raised /= "" THEN r
            ELSE [ShallowChildren(r.attrib, children[node], 1, func, nf, up)
                    EXCEPT !.visited = r.visited \o @]
    IN Then(Called(Visit(func, node, at, nf, up), at, node))

RECURSIVE Traverse(_, _, _, _, _)
RECURSIVE TraverseChildren(_, _, _, _, _, _)

\* _traverse(node, func): the visitor on node, then on each child's subtree;
\* an exception ends the walk. The result is what was raised, the attributes
\* left and the nodes func was called on, in order.
Traverse(at, node, func, nf, up) ==
    LET Then(r) ==
            IF r.raised /= "" THEN r
            ELSE [TraverseChildren(r.attrib, children[node], 1, func, nf, up)
                    EXCEPT !.visited = r.visited \o @]
    IN Then(Called(Visit(func, node, at, nf, up), at, node))

\* for child in node: self._traverse(child, func), from the i-th child on.
TraverseChildren(at, kids, i, func, nf, up) ==
    LET Then(r) ==
            IF r.raised /= "" THEN r
            ELSE [TraverseChildren(r.attrib, kids, i + 1, func, nf, up)
                    EXCEPT !.visited = r.visited \o @]
    IN IF i > Len(kids) THEN [raised |-> "", attrib |-> at, visited |-> <<>>]
       ELSE Then(Traverse(at, kids[i], func, nf, up))

CleanFunc == [name |-> "_cleanDecimals", attribute |-> ""]

RemoveFunc(attribute) == [name |-> "_removeAttribute", attribute |-> attribute]

TransformFunc == [name |-> "_handleTransforms", attribute |-> ""]

\* The format setDemicalPlaces(decimal_places) sets.
PlacesFormat(decimal_places) ==
    IF decimal_places = 0 THEN FormatD ELSE FormatF(decimal_places)

\* The tree walks of the three operations on attributes at: what the call
\* raised and the attributes it left.
SetDemicalPlacesOn(at, decimal_places, up) ==
    Traverse(at, Root, CleanFunc, PlacesFormat(decimal_places), up)

StripAttributeOn(at, attribute) ==
    Traverse(at, Root, RemoveFunc(attribute), FormatS, FALSE)

FindTransformsOn(at, nf, up) == Traverse(at, Root, TransformFunc, nf, up)

\* Every numeric attribute value is within MaxCoord.
InRange(at) ==
    \A n \in Nodes : \A i \in 1..Len(at[n]) :
        (at[n][i].name \in value_attributes /\ ~FloatFails(at[n][i].value))
            => Float(at[n][i].value).mag <= MaxCoord * Pow10(Scale)

\* ---------------------------------------------------------------- actions

SetDemicalPlaces(decimal_places, up) ==
    \E r \in {SetDemicalPlacesOn(attrib, decimal_places, up)} :
       /\ num_format' = PlacesFormat(decimal_places)
       /\ attrib' = r.attrib
       /\ raised' = r.raised
       /\ visited' = r.visited
       /\ call' = [op |-> "setDemicalPlaces", places |-> decimal_places,
                   attribute |-> ""]
       /\ cleaned' = IF r.raised = "" THEN decimal_places ELSE -1
       /\ repeated' = (call' = call)
       /\ UNCHANGED <<tag, children>>

StripAttribute(attribute) ==
    \E r \in {StripAttributeOn(attrib, attribute)} :
       /\ attrib' = r.attrib
       /\ raised' = r.raised
       /\ visited' = r.visited
       /\ call' = [op |-> "stripAttribute", places |-> 0, attribute |-> attribute]
       /\ repeated' = (call' = call)
       /\ UNCHANGED <<tag, children, num_format, cleaned>>

FindTransforms(up) ==
    \E r \in {FindTransformsOn(attrib, num_format, up)} :
       /\ InRange(r.attrib)
       /\ attrib' = r.attrib
       /\ raised' = r.raised
       /\ visited' = r.visited
       /\ call' = [op |-> "findTransforms", places |-> 0, attribute |-> ""]
       /\ repeated' = (call' = call)
       /\ UNCHANGED <<tag, children, num_format, cleaned>>

Next ==
    \/ \E decimal_places \in Precisions, up \in BOOLEAN :
         SetDemicalPlaces(decimal_places, up)
    \/ \E attribute \in StripNames : StripAttribute(attribute)
    \/ \E up \in BOOLEAN : FindTransforms(up)

Spec == Init /\ [][Next]_vars


\* ============================================================== properties
\* What the properties below are stated with.

\* A tag's local name: what follows the namespace, or the whole tag.
LocalName(n) == tag[n][Len(tag[n])]

InSeq(x, seq) == \E i \in 1..Len(seq) : seq[i] = x

RECURSIVE DocumentOrder(_)
RECURSIVE DocumentOrderOf(_, _)
\* The nodes of n's subtree, n first, then its children's subtrees in order.
DocumentOrder(n) == <<n>> \o DocumentOrderOf(children[n], 1)

DocumentOrderOf(kids, i) ==
    IF i > Len(kids) THEN <<>>
    ELSE DocumentOrder(kids[i]) \o DocumentOrderOf(kids, i + 1)

\* m comes after n in the traversal of the document.
Later(n, m) ==
    LET order == DocumentOrder(Root)
    IN \E i, j \in 1..Len(order) : i < j /\ order[i] = n /\ order[j] = m

\* The attributes of attrs other than name, as a dictionary.
Without(attrs, name) == {a \in AttrMap(attrs) : a.name /= name}

\* The recognized numeric attributes of a node all hold numbers.
NumericValues(attrs) ==
    \A i \in 1..Len(attrs) :
        attrs[i].name \in value_attributes => ~FloatFails(attrs[i].value)

\* str is a decimal numeral with at most P fractional digits, no trailing
\* fractional zero and no point without a digit after it.
WellFormatted(str, P) ==
    LET u    == IF Len(str) > 0 /\ str[1] = "-" THEN Drop(str, 1) ELSE str
        dots == {i \in 1..Len(u) : u[i] = "."}
    IN /\ Len(u) > 0
       /\ IsDigit(u[1])
       /\ \A i \in 1..Len(u) : IsDigit(u[i]) \/ u[i] = "."
       /\ Cardinality(dots) <= 1
       /\ \A d \in dots : /\ d < Len(u)
                          /\ Len(u) - d <= P
                          /\ u[Len(u)] /= "0"

\* str is f rounded to P decimal places: a numeral as above whose value is a
\* multiple of 10^-P nearest to f (either neighbour of a midpoint).
IsRounded(str, f, P) ==
    /\ WellFormatted(str, P)
    /\ LET g == Float(str)
       IN /\ 2 * Abs(g.mag - f.mag) <= Pow10(Scale - P)
          /\ g.mag > 0 => g.neg = f.neg

RECURSIVE SpaceRun(_, _)
\* The number of whitespace characters of s from position i on.
SpaceRun(s, i) ==
    IF i <= Len(s) /\ IsSpace(s[i]) THEN 1 + SpaceRun(s, i + 1) ELSE 0

RECURSIVE ListTokens(_, _, _)
\* The numbers of a list in which a comma, a run of whitespace, or a comma
\* followed by whitespace separates two numbers.
ListTokens(s, i, cur) ==
    IF i > Len(s) THEN <<cur>>
    ELSE IF s[i] = ","
         THEN <<cur>> \o ListTokens(s, i + 1 + SpaceRun(s, i + 1), <<>>)
    ELSE IF IsSpace(s[i])
         THEN <<cur>> \o ListTokens(s, i + SpaceRun(s, i), <<>>)
    ELSE ListTokens(s, i + 1, Append(cur, s[i]))

\* The first translate(...) of a transform value: where its "(" stands (0 if
\* there is none) and the arguments between it and the next ")".
TranslateOpen == TranslateWord \o <<"(">>

FirstTranslate(s) ==
    LET starts == {i \in 1..Len(s) :
                     /\ i + Len(TranslateOpen) - 1 <= Len(s)
                     /\ SubSeq(s, i, i + Len(TranslateOpen) - 1) = TranslateOpen
                     /\ \E j \in (i + Len(TranslateOpen))..Len(s) : s[j] = ")"}
        i      == CHOOSE x \in starts : \A y \in starts : x <= y
        open   == i + Len(TranslateOpen) - 1
        closes == {j \in (open + 1)..Len(s) : s[j] = ")"}
        close  == CHOOSE x \in closes : \A y \in closes : x <= y
    IN IF starts = {} THEN [start |-> 0, close |-> 0, args |-> <<>>]
       ELSE [start |-> i, close |-> close,
             args  |-> ListTokens(SubSeq(s, open + 1, close - 1), 1, <<>>)]

\* The value is translate(dx, dy) and nothing else, dx and dy numbers.
IsTranslate2(s) ==
    LET t == FirstTranslate(s)
    IN /\ t.start = 1
       /\ t.close = Len(s)
       /\ Len(t.args) = 2
       /\ IsNumberGroup(t.args[1])
       /\ IsNumberGroup(t.args[2])

\* The value is translate(dx) and nothing else, dx a number.
IsTranslate1(s) ==
    LET t == FirstTranslate(s)
    IN /\ t.start = 1
       /\ t.close = Len(s)
       /\ Len(t.args) = 1
       /\ IsNumberGroup(t.args[1])

\* The value holds a translate(dx, dy) and another transform function.
IsTranslateAmongOthers(s) ==
    LET t == FirstTranslate(s)
    IN /\ t.start > 0
       /\ Len(t.args) = 2
       /\ IsNumberGroup(t.args[1])
       /\ IsNumberGroup(t.args[2])
       /\ Cardinality({i \in 1..Len(s) : s[i] = "("}) > 1

\* A shape of the table whose position attributes, where present, are numbers.
IsShape(n) ==
    /\ LocalName(n) \in DOMAIN position_attributes
    /\ NumericValues(attrib[n])

\* Over a step: node n was folded by (dx, dy): it has lost its transform and
\* each position attribute is the formatted sum.
FoldedBy(n, dx, dy) ==
    LET coords == position_attributes[LocalName(n)]
    IN /\ ~Has(attrib'[n], "transform")
       /\ \A i \in 1..Len(coords) : \E up \in BOOLEAN :
            LET previous == IF Has(attrib[n], coords[i])
                            THEN Float(Get(attrib[n], coords[i]))
                            ELSE FloatZero
                d        == IF i % 2 = 1 THEN dx ELSE dy
            IN /\ Has(attrib'[n], coords[i])
               /\ Get(attrib'[n], coords[i])
                    = FormatFloat(num_format, FloatAdd(previous, Float(d)), up)

\* Over a step: the visit of node n raised.
RaisedAt(n) ==
    raised' /= "" /\ Len(visited') > 0 /\ visited'[Len(visited')] = n

\* ---------------------------------------------------------------------- C1
\* C1: when setDemicalPlaces(P) returns, every recognized numeric attribute
\* holds its previous value rounded to P decimal places (to the nearest
\* integer, without a point, for P = 0), with no trailing fractional zero and
\* no dangling point.
C1_FormatRounds ==
    [][(call'.op = "setDemicalPlaces" /\ raised' = "") =>
          \A n \in Nodes : \A i \in 1..Len(attrib[n]) :
             attrib[n][i].name \in value_attributes =>
                IsRounded(attrib'[n][i].value, Float(attrib[n][i].value),
                          call'.places)]_vars

\* ---------------------------------------------------------------------- C2
\* C2: when findTransforms visits a rect, circle, ellipse or line whose
\* transform is translate(dx, dy), the node loses its transform and each of
\* its position attributes becomes the formatted sum of its previous value
\* (0 if absent) and dx (even index) or dy (odd index).
C2_TranslateFolded ==
    [][call'.op = "findTransforms" =>
            \A n \in Nodes :
               (/\ InSeq(n, visited')
                /\ IsShape(n)
                /\ Has(attrib[n], "transform")
                /\ IsTranslate2(Get(attrib[n], "transform")))
               => LET t == FirstTranslate(Get(attrib[n], "transform"))
                  IN FoldedBy(n, t.args[1], t.args[2])]_vars

\* ---------------------------------------------------------------------- C3
\* C3: when a visited shape's transform holds a translate(dx, dy) together
\* with other transform functions, the node is either left alone or folded by
\* the arguments of that first translate; the arguments of another function
\* are never added to its position attributes.
C3_OnlyTranslateArguments ==
    [][call'.op = "findTransforms" =>
            \A n \in Nodes :
               (/\ InSeq(n, visited')
                /\ IsShape(n)
                /\ Has(attrib[n], "transform")
                /\ IsTranslateAmongOthers(Get(attrib[n], "transform")))
               => LET t == FirstTranslate(Get(attrib[n], "transform"))
                  IN \/ AttrMap(attrib'[n]) = AttrMap(attrib[n])
                     \/ FoldedBy(n, t.args[1], t.args[2])]_vars

\* ---------------------------------------------------------------------- C4
\* C4: when setDemicalPlaces(P) visits a node whose points value is an even
\* number of numbers separated by a comma, a run of whitespace or a comma
\* followed by whitespace, the value becomes the numbers, each formatted, in
\* the same order, joined as "x,y" pairs with single spaces between.
C4_PointsReformatted ==
    [][call'.op = "setDemicalPlaces" =>
            \A n \in Nodes :
               LET tokens == ListTokens(Get(attrib[n], "points"), 1, <<>>)
               IN (/\ InSeq(n, visited')
                   /\ NumericValues(attrib[n])
                   /\ Has(attrib[n], "points")
                   /\ Len(tokens) % 2 = 0
                   /\ \A i \in 1..Len(tokens) : ~FloatFails(tokens[i]))
                  => /\ Has(attrib'[n], "points")
                     /\ \E up \in BOOLEAN :
                          Get(attrib'[n], "points")
                            = JoinPairs([i \in 1..Len(tokens) |->
                                           FormatNumber(num_format', tokens[i], up)],
                                        1)]_vars

\* ---------------------------------------------------------------------- C5
\* C5: when setDemicalPlaces(P) visits a node whose points value has an odd
\* number of tokens, the call raises, the points value stays as it was and no
\* node later in the traversal is modified.
C5_OddPointsRaise ==
    [][call'.op = "setDemicalPlaces" =>
            \A n \in Nodes :
               (/\ InSeq(n, visited')
                /\ Has(attrib[n], "points")
                /\ Len(CoordSplit(Get(attrib[n], "points"))) % 2 = 1)
               => /\ raised' /= ""
                  /\ Has(attrib'[n], "points")
                  /\ Get(attrib'[n], "points") = Get(attrib[n], "points")
                  /\ \A m \in Nodes : Later(n, m) => attrib'[m] = attrib[m]]_vars

\* A setDemicalPlaces call has just raised on a points value of three tokens,
\* after rewriting an attribute of an earlier node.
C5_Witness ==
    /\ call.op = "setDemicalPlaces"
    /\ raised = "IndexError"
    /\ Get(attrib[Root], "width") = <<"1", "0", ".", "5">>
    /\ \E n \in Nodes :
         /\ Has(attrib[n], "points")
         /\ Get(attrib[n], "points") = <<"1", ",", "2", ",", "3">>
         /\ \E m \in Nodes : Later(n, m) /\ Has(attrib[m], "transform")

\* ---------------------------------------------------------------------- C6
\* C6: when findTransforms visits a node that has a translate transform and
\* whose local name is not in the shape table, the node is left as it was
\* and its visit raises nothing.
C6_UnknownShapeUntouched ==
    [][call'.op = "findTransforms" =>
            \A n \in Nodes :
               (/\ InSeq(n, visited')
                /\ LocalName(n) \notin DOMAIN position_attributes
                /\ Has(attrib[n], "transform")
                /\ IsTranslate2(Get(attrib[n], "transform")))
               => /\ attrib'[n] = attrib[n]
                  /\ ~RaisedAt(n)]_vars

\* ---------------------------------------------------------------------- C7
\* C7: stripAttribute(name) returns without raising; afterwards no node has
\* an attribute called name, every node keeps all its other attributes with
\* their values, and the tree's shape and tags are as before.
C7_StripRemovesEverywhere ==
    [][call'.op = "stripAttribute" =>
            /\ raised' = ""
            /\ children' = children
            /\ tag' = tag
            /\ \A n \in Nodes :
                 /\ ~Has(attrib'[n], call'.attribute)
                 /\ AttrMap(attrib'[n]) = Without(attrib[n], call'.attribute)
                 /\ ~Has(attrib[n], call'.attribute) => attrib'[n] = attrib[n]]_vars

\* stripAttribute("id") has just run on a chain of three nodes, where the
\* deepest node still has its other attributes.
C7_Witness ==
    /\ call.op = "stripAttribute"
    /\ call.attribute = "id"
    /\ raised = ""
    /\ \A n \in Nodes : ~Has(attrib[n], "id")
    /\ \E n, m \in Nodes :
         /\ children[Root] = <<n>>
         /\ children[n] = <<m>>
         /\ tag[n][Len(tag[n])] = "line"
         /\ Has(attrib[n], "x1")
         /\ Has(attrib[m], "transform")

\* ---------------------------------------------------------------------- C8
\* Formatting a formatted number again, at each precision, changes nothing.
FormatIdempotent ==
    \A n \in Nodes : \A i \in 1..Len(attrib[n]) :
        (attrib[n][i].name \in value_attributes /\ ~FloatFails(attrib[n][i].value))
        => \A P \in Precisions, up1 \in BOOLEAN :
              \A once \in {FormatNumber(PlacesFormat(P), attrib[n][i].value, up1)} :
                 \A up2 \in BOOLEAN :
                    FormatNumber(PlacesFormat(P), once, up2) = once

C9_CleanedStaysClean ==
    cleaned >= 0 =>
        \A n \in Nodes : \A i \in 1..Len(attrib[n]) :
            attrib[n][i].name \in value_attributes
                => WellFormatted(attrib[n][i].value, cleaned)

\* After setDemicalPlaces(1), findTransforms has folded translate(2.5 -3)
\* into a line, creating x2 and y2.
C9_Witness ==
    /\ cleaned = 1
    /\ call.op = "findTransforms"
    /\ \E n \in Nodes :
         /\ LocalName(n) = "line"
         /\ ~Has(attrib[n], "transform")
         /\ Get(attrib[n], "x1") = <<"3", ".", "7">>
         /\ Get(attrib[n], "x2") = <<"2", ".", "5">>
         /\ Get(attrib[n], "y2") = <<"-", "3">>

\* --------------------------------------------------------------------- C10
\* C10: when findTransforms visits a node whose transform is translate(dx),
\* with a single number, the node's attributes are left as they were.
C10_SingleArgumentUnfolded ==
    [][call'.op = "findTransforms" =>
            \A n \in Nodes :
               (/\ InSeq(n, visited')
                /\ Has(attrib[n], "transform")
                /\ IsTranslate1(Get(attrib[n], "transform")))
               => AttrMap(attrib'[n]) = AttrMap(attrib[n])]_vars

=============================================================================
